---- MODULE Spec2Model ----
(***************************************************************************)
(* rIconPacker (src/src/riconpacker.c): icon packs, the ICO and ICNS       *)
(* codecs, the GUI handlers of main() and the command-line flow.           *)
(***************************************************************************)
EXTENDS Integers, Sequences, FiniteSets, TLC

VARIABLES
    mode,                   \* "start" | "gui" | "cli" | "aborted" | "crashed" | "closed"
    charSigned,             \* build property: plain char is a signed type
    packs,                  \* static IconPack packs[5]
    platformActive,         \* mainToolbarState.platformActive
    sizeListActive,         \* static int sizeListActive
    exportTextChunkChecked, \* static bool exportTextChunkChecked
    disk,                   \* files written by the export functions
    saved,                  \* history: entries and flag handed to the last export
    op,                     \* history: the last handler that ran, with its input
    oob,                    \* history: entries[sizeListActive - 1] was indexed past count
    ops,                    \* number of GUI events handled so far
    cli,                    \* result of ProcessCommandLine
    life                    \* history: packs created by InitIconPack and not yet closed
                            \* by CloseIconPack, per packs[] slot

vars == <<mode, charSigned, packs, platformActive, sizeListActive,
          exportTextChunkChecked, disk, saved, op, oob, ops, cli, life>>

----------------------------------------------------------------------------
(* Bounds of the model *)

MaxOps == 3
MaxInputFiles == 2

----------------------------------------------------------------------------
(* Program constants *)

MAX_IMAGE_TEXT_SIZE == 40
MAX_ICNS_IMAGE_SUPPORTED == 32
MAX_ICONS_PACK == 64
MAX_OUTPUT_SIZES == 64

ICON_PLATFORM_WINDOWS == 0
ICON_PLATFORM_MACOS == 1
ICON_PLATFORM_FAVICON == 2
ICON_PLATFORM_ANDROID == 3
ICON_PLATFORM_IOS7 == 4

Platforms == 0..4

icoSizesWindows == <<256, 128, 96, 64, 48, 32, 24, 16>>
icoSizesMacOS == <<1024, 512, 256, 128, 64, 48, 32, 16>>
icoSizesFavicon == <<228, 152, 144, 120, 96, 72, 64, 32, 24, 16>>
icoSizesAndroid == <<192, 144, 96, 72, 64, 48, 36, 32, 24, 16>>
icoSizesiOS == <<180, 152, 120, 87, 80, 76, 58, 40, 29>>

\* unsigned int: a 32-bit value v is held as v below 2^31 and as v - 2^32 from 2^31 on
\* (its two's complement reading), so that + and - wrap as the C operators do;
\* a < b on unsigned int
ULess32(a, b) == IF (a < 0) = (b < 0) THEN a < b ELSE b < 0

----------------------------------------------------------------------------
(* Text buffers: char text[MAX_IMAGE_TEXT_SIZE] *)

ZeroText == [i \in 1..MAX_IMAGE_TEXT_SIZE |-> 0]

\* strlen(): number of bytes before the first zero byte
StrLen(buf) ==
    IF \E i \in 1..Len(buf) : buf[i] = 0
    THEN (CHOOSE i \in 1..Len(buf) : buf[i] = 0 /\ \A j \in 1..(i - 1) : buf[j] # 0) - 1
    ELSE Len(buf)

\* the C string held by a buffer
CStr(buf) == SubSeq(buf, 1, StrLen(buf))

\* memcpy(dst, src, n): the first n bytes of dst are overwritten, the rest kept
MemCpy(dst, src, n) == [i \in 1..Len(dst) |-> IF i <= n THEN src[i] ELSE dst[i]]

\* a zeroed buffer holding the C string s
TextOf(s) == MemCpy(ZeroText, s, Len(s))

----------------------------------------------------------------------------
(* Images (raylib Image) and PNG streams (rpng) *)

PIXELFORMAT_UNCOMPRESSED_R8G8B8 == 4
PIXELFORMAT_UNCOMPRESSED_R8G8B8A8 == 7

\* pixel data: the picture it shows and the resamplings it went through
NullData == [px |-> "", scaled |-> <<>>]

NullImage == [width |-> 0, height |-> 0, format |-> 0, data |-> NullData]

\* GenImageColor(size, size, DARKGRAY) + ImageDrawRectangle(1, 1, size - 2, size - 2, GRAY)
PlaceholderImage(size) ==
    [width |-> size, height |-> size, format |-> PIXELFORMAT_UNCOMPRESSED_R8G8B8A8,
     data |-> [px |-> "placeholder", scaled |-> <<>>]]

\* ImageFormat(&image, PIXELFORMAT_UNCOMPRESSED_R8G8B8A8)
ImageFormatRGBA(image) ==
    IF image.data = NullData \/ image.format = PIXELFORMAT_UNCOMPRESSED_R8G8B8A8 THEN image
    ELSE [image EXCEPT !.format = PIXELFORMAT_UNCOMPRESSED_R8G8B8A8]

\* ImageResize()/ImageResizeNN(): the pixels are resampled to newSize x newSize
ImageResized(image, newSize, algo) ==
    IF image.data = NullData \/ image.width = 0 \/ image.height = 0 THEN image
    ELSE [image EXCEPT !.width = newSize, !.height = newSize,
                       !.data.scaled = Append(@, <<algo, image.width, newSize>>)]

NoChunk == [length |-> 0, data |-> <<>>]

\* rpng_save_image_to_memory(): the PNG stream of an image, without text chunk
PngEncode(image, colorChannels) ==
    [sig |-> "PNG", width |-> image.width, height |-> image.height,
     channels |-> colorChannels, pixels |-> image.data, rIPt |-> NoChunk]

\* rpng_chunk_write_from_memory(): the stream with the chunk added
PngWithChunk(png, chunk) == [png EXCEPT !.rIPt = chunk]

\* rpng_chunk_read_from_memory(data, "rIPt")
PngReadChunk(png) == png.rIPt

\* number of bytes of a PNG stream: signature, IHDR, IDAT, IEND and the text chunk
PngSize(png) ==
    8 + 25 + (12 + png.width) + 12
      + (IF png.rIPt.length > 0 THEN 12 + png.rIPt.length ELSE 0)

\* LoadImageFromMemory(".png", ...): the decoded image
PngDecode(png) ==
    IF png.channels \notin {3, 4} THEN NullImage
    ELSE [width |-> png.width, height |-> png.height,
          format |-> IF png.channels = 3 THEN PIXELFORMAT_UNCOMPRESSED_R8G8B8
                     ELSE PIXELFORMAT_UNCOMPRESSED_R8G8B8A8,
          data |-> png.pixels]

\* color channels chosen by the export functions from the image format
ColorChannels(image) ==
    IF image.format = PIXELFORMAT_UNCOMPRESSED_R8G8B8 THEN 3
    ELSE IF image.format = PIXELFORMAT_UNCOMPRESSED_R8G8B8A8 THEN 4
    ELSE 0

\* a stream of nbytes bytes that does not start with the PNG signature
RawData(nbytes) == [sig |-> "RAW", nbytes |-> nbytes]

DataSize(d) == IF d.sig = "PNG" THEN PngSize(d) ELSE d.nbytes

----------------------------------------------------------------------------
(* Icon packs *)

\* a zeroed IconPackEntry (RL_CALLOC)
ZeroEntry == [size |-> 0, valid |-> FALSE, image |-> NullImage, text |-> ZeroText]

\* static IconPack packs[5] = { 0 }
ZeroPack == [count |-> 0, sizes |-> <<>>, entries |-> <<>>]

\* InitIconPack with an iOS pack one entry short
PackCount_short(platform) ==
    CASE platform = ICON_PLATFORM_WINDOWS -> 8
      [] platform = ICON_PLATFORM_MACOS -> 8
      [] platform = ICON_PLATFORM_FAVICON -> 10
      [] platform = ICON_PLATFORM_ANDROID -> 10
      [] platform = ICON_PLATFORM_IOS7 -> 8
      [] OTHER -> 0

\* the switch of InitIconPack: pack.count
PackCount(platform) ==
    CASE platform = ICON_PLATFORM_WINDOWS -> 8
      [] platform = ICON_PLATFORM_MACOS -> 8
      [] platform = ICON_PLATFORM_FAVICON -> 10
      [] platform = ICON_PLATFORM_ANDROID -> 10
      [] platform = ICON_PLATFORM_IOS7 -> 9
      [] OTHER -> 0

\* the switch of InitIconPack: pack.sizes
PackSizes(platform) ==
    CASE platform = ICON_PLATFORM_WINDOWS -> icoSizesWindows
      [] platform = ICON_PLATFORM_MACOS -> icoSizesMacOS
      [] platform = ICON_PLATFORM_FAVICON -> icoSizesFavicon
      [] platform = ICON_PLATFORM_ANDROID -> icoSizesAndroid
      [] platform = ICON_PLATFORM_IOS7 -> icoSizesiOS
      [] OTHER -> <<>>

\* the placeholder entry generated for slot i
PlaceholderEntry(sizes, i) ==
    [size |-> sizes[i], valid |-> FALSE, image |-> PlaceholderImage(sizes[i]),
     text |-> ZeroText]

InitIconPack(platform) ==
    [count |-> PackCount(platform),
     sizes |-> PackSizes(platform),
     entries |-> [i \in 1..PackCount(platform) |-> PlaceholderEntry(PackSizes(platform), i)]]

\* a slot search that compares the width only, not width against height
FindSlot_anyShape(pack, image) ==
    IF \E k \in 1..pack.count : image.width = pack.sizes[k]
    THEN CHOOSE k \in 1..pack.count :
             /\ image.width = pack.sizes[k]
             /\ \A j \in 1..(k - 1) : image.width # pack.sizes[j]
    ELSE 0

\* the slot search of LoadIconToPack: first k with width == pack->sizes[k], 0 if none
\* (indices are 1-based here, so 0 stands for the C value -1)
FindSlot(pack, image) ==
    IF image.width # image.height THEN 0
    ELSE IF \E k \in 1..pack.count : image.width = pack.sizes[k]
         THEN CHOOSE k \in 1..pack.count :
                  /\ image.width = pack.sizes[k]
                  /\ \A j \in 1..(k - 1) : image.width # pack.sizes[j]
         ELSE 0

\* a load that also fills slots that are already valid
SlotLoadable_always(pack, index) == index >= 1

\* the condition under which LoadIconToPack fills the slot
SlotLoadable(pack, index) == (index >= 1) /\ ~pack.entries[index].valid

\* the text of a slot after LoadIconToPack filled it
LoadedText(oldText, newText) == MemCpy(oldText, newText, StrLen(newText))

\* one iteration of the loop of LoadIconToPack
LoadEntryToPack(pack, entry) ==
    LET index == FindSlot(pack, entry.image) IN
    IF SlotLoadable(pack, index)
    THEN [pack EXCEPT !.entries[index] =
             [size |-> pack.sizes[index],
              valid |-> TRUE,
              image |-> ImageFormatRGBA(entry.image),
              text |-> LoadedText(pack.entries[index].text, entry.text)]]
    ELSE pack

RECURSIVE LoadEntriesToPack(_, _, _, _)
LoadEntriesToPack(pack, entries, i, imCount) ==
    IF i > imCount THEN pack
    ELSE LoadEntriesToPack(LoadEntryToPack(pack, entries[i]), entries, i + 1, imCount)

\* an unload that marks the entry invalid but keeps its image
UnloadIconFromPack_keepImage(pack, index) ==
    IF pack.entries[index].valid
    THEN [pack EXCEPT !.entries[index].valid = FALSE]
    ELSE pack

UnloadIconFromPack(pack, index) ==
    IF pack.entries[index].valid
    THEN [pack EXCEPT !.entries[index].image = PlaceholderImage(pack.entries[index].size),
                      !.entries[index].valid = FALSE]
    ELSE pack

RECURSIVE UnloadAllFromPack(_, _)
UnloadAllFromPack(pack, i) ==
    IF i > pack.count THEN pack
    ELSE UnloadAllFromPack(UnloadIconFromPack(pack, i), i + 1)

\* the validCount loops of main() and of the export functions
ValidCount(entries) == Cardinality({i \in 1..Len(entries) : entries[i].valid})

----------------------------------------------------------------------------
(* Files *)

\* fopen() failed / no such file
NoFile == [kind |-> "none"]

PngSignature == <<137, 80, 78, 71, 13, 10, 26, 10>>

\* the first eight bytes of a payload
Head8(d) == IF d.sig = "PNG" THEN PngSignature ELSE [k \in 1..8 |-> 0]

\* a byte read through a plain char: negative above 127 when char is signed
AsChar(b) == IF charSigned /\ b >= 128 THEN b - 256 ELSE b

\* the signature test of LoadIconPackFromICO, on char *icoImageData
IcoSignatureOk(d) == \A k \in 1..8 : AsChar(Head8(d)[k]) = PngSignature[k]

\* the signature test of LoadIconPackFromICNS, on unsigned char *incData
IcnsSignatureOk(d) == \A k \in 1..8 : Head8(d)[k] = PngSignature[k]

\* a copy of the whole chunk, up to the size of the buffer
ChunkText_whole(chunk) ==
    MemCpy(ZeroText, chunk.data,
           IF chunk.length < MAX_IMAGE_TEXT_SIZE THEN chunk.length
           ELSE MAX_IMAGE_TEXT_SIZE)

\* the text copied out of the rIPt chunk by both loaders
ChunkText(chunk) ==
    MemCpy(ZeroText, chunk.data,
           IF chunk.length < MAX_IMAGE_TEXT_SIZE THEN chunk.length
           ELSE MAX_IMAGE_TEXT_SIZE - 1)

\* the entry both loaders build from a PNG payload
DecodedEntry(d) ==
    [size |-> PngDecode(d).width, valid |-> FALSE, image |-> PngDecode(d),
     text |-> ChunkText(PngReadChunk(d))]

\* the PNG stream the export functions build for an entry
PngOfEntry(entry, exportText) ==
    LET tempPngData == PngEncode(entry.image, ColorChannels(entry.image)) IN
    IF exportText /\ entry.text[1] # 0
    THEN PngWithChunk(tempPngData,
                      [length |-> StrLen(entry.text), data |-> CStr(entry.text)])
    ELSE tempPngData

\* indices of the valid entries, in pack order (the i, k loops of the export functions)
RECURSIVE ValidIndices(_, _)
ValidIndices(entries, entryCount) ==
    IF entryCount = 0 THEN <<>>
    ELSE IF entries[entryCount].valid
         THEN Append(ValidIndices(entries, entryCount - 1), entryCount)
         ELSE ValidIndices(entries, entryCount - 1)

RECURSIVE SumSizes(_, _)
SumSizes(datas, k) == IF k = 0 THEN 0 ELSE SumSizes(datas, k - 1) + DataSize(datas[k])

----------------------------------------------------------------------------
(* ICO codec *)

\* icoDirEntry[k].width / .height: an unsigned char
IcoDirDimension(width) == IF width = 256 THEN 0 ELSE width % 256

\* an offset counted from the end of the header, the directory left out
IcoOffset_noDirectory(pngDataPtrs, imageCount, k) == 6 + SumSizes(pngDataPtrs, k - 1)

\* icoDirEntry[k].offset: int offset = 6 + 16*icoHeader.imageCount, then
\* offset += fileSize after every valid entry
IcoOffset(pngDataPtrs, imageCount, k) == 6 + 16 * imageCount + SumSizes(pngDataPtrs, k - 1)

\* an ICO export without the early return: an empty pack gives a file of a bare header
SaveIconPackToICO_emptyFile(entries, entryCount, exportText) ==
    LET idx == ValidIndices(entries, entryCount)
        imageCount == Len(idx) % 65536
        pngDataPtrs == [k \in 1..imageCount |-> PngOfEntry(entries[idx[k]], exportText)]
    IN
    [kind |-> "ico",
     header |-> [reserved |-> 0, imageType |-> 1, imageCount |-> imageCount],
     dir |-> [k \in 1..imageCount |->
                 [width |-> IcoDirDimension(entries[idx[k]].image.width),
                  height |-> IcoDirDimension(entries[idx[k]].image.width),
                  bpp |-> 32,
                  size |-> PngSize(pngDataPtrs[k]),
                  offset |-> IcoOffset(pngDataPtrs, imageCount, k)]],
     body |-> [k \in 1..imageCount |->
                 [at |-> 6 + 16 * imageCount + SumSizes(pngDataPtrs, k - 1),
                  data |-> pngDataPtrs[k]]],
     bytes |-> 6 + 16 * imageCount + SumSizes(pngDataPtrs, imageCount)]

\* SaveIconPackToICO: the file written, NoFile when nothing is written
SaveIconPackToICO(entries, entryCount, exportText) ==
    LET idx == ValidIndices(entries, entryCount)
        validCount == Len(idx)
        imageCount == validCount % 65536
        pngDataPtrs == [k \in 1..imageCount |-> PngOfEntry(entries[idx[k]], exportText)]
    IN
    IF validCount = 0 THEN NoFile
    ELSE [kind |-> "ico",
          header |-> [reserved |-> 0, imageType |-> 1, imageCount |-> imageCount],
          dir |-> [k \in 1..imageCount |->
                      [width |-> IcoDirDimension(entries[idx[k]].image.width),
                       height |-> IcoDirDimension(entries[idx[k]].image.width),
                       bpp |-> 32,
                       size |-> PngSize(pngDataPtrs[k]),
                       offset |-> IcoOffset(pngDataPtrs, imageCount, k)]],
          body |-> [k \in 1..imageCount |->
                      [at |-> 6 + 16 * imageCount + SumSizes(pngDataPtrs, k - 1),
                       data |-> pngDataPtrs[k]]],
          bytes |-> 6 + 16 * imageCount + SumSizes(pngDataPtrs, imageCount)]

\* the IcoHeader read from the first six bytes of a file with ICNS content: 'i' 'c',
\* 'n' 's', and the two high bytes of the big-endian file size, each pair taken as a
\* little-endian unsigned short (imageCount is 0 for a file of less than 65536 bytes,
\* as the files offered are, so no directory entry is read from such a file)
IcoHeaderOfIcns(file) ==
    [reserved |-> 105 + 256 * 99,
     imageType |-> 110 + 256 * 115,
     imageCount |-> ((file.size \div 16777216) % 256) + 256 * ((file.size \div 65536) % 256)]

\* fread(&icoHeader, sizeof(IcoHeader), 1, icoFile) into IcoHeader icoHeader = { 0 }:
\* a file without a whole header leaves the zeroed header (the files offered are
\* empty or hold the whole header; a partly read header is indeterminate)
IcoHeaderRead(file) ==
    IF file.bytes < 6 THEN [reserved |-> 0, imageType |-> 0, imageCount |-> 0]
    ELSE IF file.kind = "icns" THEN IcoHeaderOfIcns(file)
    ELSE file.header

\* fread(&icoDirEntry[i], sizeof(IcoDirEntry), 1, icoFile) into the zeroed array
IcoDirRead(file, i) ==
    IF file.kind = "ico" /\ i <= Len(file.dir) /\ 6 + 16 * i <= file.bytes THEN file.dir[i]
    ELSE [width |-> 0, height |-> 0, bpp |-> 0, size |-> 0, offset |-> 0]

\* a payload that starts at pos and lies whole within the n bytes read
IcoWholeAt(file, pos, n, b) ==
    /\ file.body[b].at = pos
    /\ DataSize(file.body[b].data) <= n
    /\ pos + DataSize(file.body[b].data) <= file.bytes

\* fread(icoImageData, 1, n, icoFile) with the file position at pos: a stream that
\* starts there and is read whole, else bytes that do not start a PNG stream (the
\* files offered have no stream cut by a read)
IcoReadAt(file, pos, n) ==
    IF file.kind = "ico" /\ \E b \in 1..Len(file.body) : IcoWholeAt(file, pos, n, b)
    THEN file.body[CHOOSE b \in 1..Len(file.body) : IcoWholeAt(file, pos, n, b)].data
    ELSE RawData(n)

\* file position before the payload of directory entry i is read
RECURSIVE IcoReadPos(_, _)
IcoReadPos(file, i) ==
    IF i = 1 THEN 6 + 16 * IcoHeaderRead(file).imageCount
    ELSE IcoReadPos(file, i - 1) + IcoDirRead(file, i - 1).size

\* LoadIconPackFromICO: entries, *count, and whether the pointer returned is NULL
\* (fopen() failed; RL_CALLOC of zero entries is taken to return a block)
LoadIconPackFromICO(file) ==
    IF file.kind \notin {"ico", "icns"} THEN [entries |-> <<>>, count |-> 0, null |-> TRUE]
    ELSE [entries |->
             [i \in 1..IcoHeaderRead(file).imageCount |->
                 LET icoImageData == IcoReadAt(file, IcoReadPos(file, i),
                                               IcoDirRead(file, i).size) IN
                 IF IcoSignatureOk(icoImageData) THEN DecodedEntry(icoImageData)
                 ELSE ZeroEntry],
          count |-> IcoHeaderRead(file).imageCount,
          null |-> FALSE]

----------------------------------------------------------------------------
(* ICNS codec *)

\* unsigned char icnType[4] = { 0 }
NulType == "[0,0,0,0]"

\* the OSTypes LoadIconPackFromICNS accepts
IcnsSupportedTypes ==
    {"icp4", "ic04", "icsb", "sb24", "icp5", "ic05", "ic11", "icsB", "icp6",
     "SB24", "ic12", "ic07", "ic08", "ic13", "ic09", "ic14", "ic10"}

\* the switch of SaveIconPackToICNS: the OSType written for an image width;
\* the default case leaves icnType as the previous iteration set it
IcnsTypeOf(width, prevType) ==
    CASE width = 16 -> "icp4"
      [] width = 32 -> "ic11"
      [] width = 48 -> "SB24"
      [] width = 64 -> "ic12"
      [] width = 128 -> "ic07"
      [] width = 256 -> "ic13"
      [] width = 512 -> "ic14"
      [] width = 1024 -> "ic10"
      [] OTHER -> prevType

\* icnType after the chunk of the k-th valid entry was written
RECURSIVE IcnsTypeAt(_, _, _)
IcnsTypeAt(entries, idx, k) ==
    IF k = 0 THEN NulType
    ELSE IcnsTypeOf(entries[idx[k]].image.width, IcnsTypeAt(entries, idx, k - 1))

\* SaveIconPackToICNS: the file written, NoFile when nothing is written
SaveIconPackToICNS(entries, entryCount) ==
    LET idx == ValidIndices(entries, entryCount)
        validCount == Len(idx)
        pngDataPtrs == [k \in 1..validCount |->
                           PngEncode(entries[idx[k]].image, ColorChannels(entries[idx[k]].image))]
        icnsFileSize == 8 + 8 * validCount + SumSizes(pngDataPtrs, validCount)
    IN
    IF validCount = 0 THEN NoFile
    ELSE [kind |-> "icns",
          sig |-> "icns",
          size |-> icnsFileSize,
          chunks |-> [k \in 1..validCount |->
                         [type |-> IcnsTypeAt(entries, idx, k),
                          size |-> PngSize(pngDataPtrs[k]) + 8,
                          data |-> pngDataPtrs[k]]],
          bytes |-> icnsFileSize]

\* fread(icnsSig, 1, 4, icnsFile) into unsigned char icnsSig[4] = { 0 } (the files
\* offered hold no part of the signature or all of it)
IcnsSigRead(file) == IF file.bytes >= 4 THEN file.sig ELSE NulType

\* fread(&sizeBE, sizeof(unsigned int), 1, icnsFile) into sizeBE = 0, then SWAP_INT32
\* (the files offered hold no part of the size field or all of it)
IcnsSizeRead(file) == IF file.bytes >= 8 THEN file.size ELSE 0

\* the file position of the header of chunk k
RECURSIVE IcnsChunkPos(_, _)
IcnsChunkPos(file, k) ==
    IF k = 1 THEN 8
    ELSE IcnsChunkPos(file, k - 1) + 8 + DataSize(file.chunks[k - 1].data)

\* the chunk whose header starts at file position pos, 0 when there is none
IcnsChunkAt(file, pos) ==
    IF \E k \in 1..Len(file.chunks) : IcnsChunkPos(file, k) = pos
    THEN CHOOSE k \in 1..Len(file.chunks) : IcnsChunkPos(file, k) = pos
    ELSE 0

\* a chunk loop that does not seek past the payload of a chunk it does not load
IcnsStep_noSeek(file, st) ==
    LET atEnd == st.pos >= file.bytes
        k == IcnsChunkAt(file, st.pos)
        icnType == IF atEnd THEN st.icnType
                   ELSE IF k = 0 THEN "[raw]" ELSE file.chunks[k].type
        sizeBE == IF atEnd THEN st.sizeBE
                  ELSE IF k = 0 THEN 8 ELSE file.chunks[k].size
        icnSize == sizeBE - 8
        incData == IF ~atEnd /\ k # 0 /\ DataSize(file.chunks[k].data) <= icnSize
                   THEN file.chunks[k].data
                   ELSE RawData(icnSize)
        loaded == icnType \in IcnsSupportedTypes /\ IcnsSignatureOk(incData)
    IN
    [i |-> st.i + 1,
     pos |-> IF atEnd THEN st.pos
             ELSE IF icnType \in IcnsSupportedTypes THEN st.pos + 8 + icnSize
             ELSE st.pos + 8,
     icnType |-> icnType,
     sizeBE |-> sizeBE,
     processedSize |-> st.processedSize + 8 + icnSize,
     entries |-> IF loaded THEN Append(st.entries, DecodedEntry(incData)) ELSE st.entries,
     imageCounter |-> IF loaded THEN st.imageCounter + 1 ELSE st.imageCounter]

\* one iteration of the chunk loop of LoadIconPackFromICNS; st holds the loop's
\* variables: i, pos (the position of icnsFile), icnType, sizeBE, processedSize,
\* entries, imageCounter
IcnsStep(file, st) ==
    LET atEnd == st.pos >= file.bytes
        k == IcnsChunkAt(file, st.pos)
        \* fread() at end of file leaves icnType and sizeBE as they were; a header
        \* read inside a payload gets bytes that name no OSType
        icnType == IF atEnd THEN st.icnType
                   ELSE IF k = 0 THEN "[raw]" ELSE file.chunks[k].type
        sizeBE == IF atEnd THEN st.sizeBE
                  ELSE IF k = 0 THEN 8 ELSE file.chunks[k].size
        icnSize == sizeBE - 8
        \* fread(incData, 1, icnSize, icnsFile): the stream when it is read whole
        incData == IF ~atEnd /\ k # 0 /\ DataSize(file.chunks[k].data) <= icnSize
                   THEN file.chunks[k].data
                   ELSE RawData(icnSize)
        loaded == icnType \in IcnsSupportedTypes /\ IcnsSignatureOk(incData)
    IN
    [i |-> st.i + 1,
     \* both branches move the position by icnSize: fread() of the payload (up to
     \* the end of file), or fseek(icnsFile, icnSize, SEEK_CUR); an icnSize that
     \* wrapped below zero is given here as fseek() takes it where long has 32 bits
     \* (where it has 64 the position lands past the end of the file)
     pos |-> IF atEnd THEN st.pos ELSE st.pos + 8 + icnSize,
     icnType |-> icnType,
     sizeBE |-> sizeBE,
     processedSize |-> st.processedSize + 8 + icnSize,
     entries |-> IF loaded THEN Append(st.entries, DecodedEntry(incData)) ELSE st.entries,
     imageCounter |-> IF loaded THEN st.imageCounter + 1 ELSE st.imageCounter]

RECURSIVE IcnsLoop(_, _)
IcnsLoop(file, st) ==
    IF (st.i < MAX_ICNS_IMAGE_SUPPORTED) /\ ULess32(st.processedSize, IcnsSizeRead(file))
    THEN IcnsLoop(file, IcnsStep(file, st))
    ELSE st

\* LoadIconPackFromICNS: entries, *count, and whether the pointer returned is NULL
\* (fopen() failed or the signature is not "icns")
LoadIconPackFromICNS(file) ==
    IF file.kind # "icns" \/ IcnsSigRead(file) # "icns"
    THEN [entries |-> <<>>, count |-> 0, null |-> TRUE]
    ELSE LET st == IcnsLoop(file,
                       [i |-> 0, pos |-> 8, icnType |-> NulType, sizeBE |-> IcnsSizeRead(file),
                        processedSize |-> 8, entries |-> <<>>, imageCounter |-> 0])
         IN [entries |-> st.entries, count |-> st.imageCounter, null |-> FALSE]

\* ExportIconPackImages: the PNG files written, one per valid entry, named by the
\* image size; the data handed to SaveFileData() is pngDataPtrs[i], not pngDataPtrs[k],
\* which is the stream just built only when every entry before i is valid
ExportIconPackImages(entries, entryCount, exportText) ==
    LET idx == ValidIndices(entries, entryCount) IN
    [k \in 1..Len(idx) |->
        [width |-> entries[idx[k]].image.width,
         data |-> IF idx[k] = k THEN PngOfEntry(entries[idx[k]], exportText)
                  ELSE RawData(PngSize(PngOfEntry(entries[idx[k]], exportText)))]]

----------------------------------------------------------------------------
(* Input files offered to the program *)

Hello == <<104, 101, 108, 108, 111>>
Hi == <<104, 105>>
\* a line of 45 characters, longer than the text buffer
Verse == [k \in 1..45 |-> 64 + k]

\* a PNG stream as another tool wrote it
Png(width, height, channels, px, text) ==
    [sig |-> "PNG", width |-> width, height |-> height, channels |-> channels,
     pixels |-> [px |-> px, scaled |-> <<>>],
     rIPt |-> IF text = <<>> THEN NoChunk ELSE [length |-> Len(text), data |-> text]]

\* an ICO file holding the payloads in directory order, right after the directory
IcoFileOf(datas) ==
    [kind |-> "ico",
     header |-> [reserved |-> 0, imageType |-> 1, imageCount |-> Len(datas)],
     dir |-> [k \in 1..Len(datas) |->
                 [width |-> IcoDirDimension(datas[k].width),
                  height |-> IcoDirDimension(datas[k].height),
                  bpp |-> 32,
                  size |-> DataSize(datas[k]),
                  offset |-> 6 + 16 * Len(datas) + SumSizes(datas, k - 1)]],
     body |-> [k \in 1..Len(datas) |->
                 [at |-> 6 + 16 * Len(datas) + SumSizes(datas, k - 1), data |-> datas[k]]],
     bytes |-> 6 + 16 * Len(datas) + SumSizes(datas, Len(datas))]

\* an ICNS file holding the chunks given as <<type, data>> pairs
IcnsFileOf(chunks) ==
    [kind |-> "icns",
     sig |-> "icns",
     size |-> 8 + 8 * Len(chunks) + SumSizes([k \in 1..Len(chunks) |-> chunks[k][2]], Len(chunks)),
     chunks |-> [k \in 1..Len(chunks) |->
                    [type |-> chunks[k][1], size |-> DataSize(chunks[k][2]) + 8,
                     data |-> chunks[k][2]]],
     bytes |-> 8 + 8 * Len(chunks) + SumSizes([k \in 1..Len(chunks) |-> chunks[k][2]], Len(chunks))]

PngFileOf(png) == [kind |-> "png", png |-> png]

\* an ICO file whose payloads lie where the items say: item k gives the width, the
\* payload and the offset of directory entry k, and the file is nbytes long
IcoFileLaid(items, nbytes) ==
    [kind |-> "ico",
     header |-> [reserved |-> 0, imageType |-> 1, imageCount |-> Len(items)],
     dir |-> [k \in 1..Len(items) |->
                 [width |-> IcoDirDimension(items[k].width),
                  height |-> IcoDirDimension(items[k].width),
                  bpp |-> 32,
                  size |-> DataSize(items[k].data),
                  offset |-> items[k].offset]],
     body |-> [k \in 1..Len(items) |-> [at |-> items[k].offset, data |-> items[k].data]],
     bytes |-> nbytes]

\* hand-made ICO files: payloads stored in the reverse of the directory order, a gap
\* between directory and payload, a BMP payload before a PNG payload, a file with no
\* image, an empty file, a name under which there is no file, an ICNS file named .ico
ProbeIcoNames ==
    {"swapped.ico", "gap.ico", "mixed.ico", "none.ico", "zero.ico", "missing.ico",
     "renamed.ico"}

\* hand-made ICNS files: an unknown OSType before and after an ic07 chunk, a JPEG 2000
\* payload before a PNG payload, 32 chunks before an ic07 chunk, a file with no chunk,
\* a file cut after the signature, a file with another signature, no file, a file
\* whose last chunk declares a size of 4 and whose declared size ends 4 bytes into
\* that chunk
ProbeIcnsNames ==
    {"tagfirst.icns", "taglast.icns", "jp2.icns", "many.icns", "none.icns",
     "sig4.icns", "wrong.icns", "missing.icns", "short.icns"}

ProbeNames == ProbeIcoNames \cup ProbeIcnsNames

ProbeFile(name) ==
    CASE name = "swapped.ico" ->
            LET a == Png(128, 128, 4, "swapA", <<>>)
                b == Png(128, 128, 4, "swapB", <<>>)
            IN IcoFileLaid(<<[width |-> 128, data |-> a, offset |-> 38 + DataSize(b)],
                             [width |-> 128, data |-> b, offset |-> 38]>>,
                           38 + DataSize(a) + DataSize(b))
      [] name = "gap.ico" ->
            LET a == Png(128, 128, 4, "gapA", <<>>)
            IN IcoFileLaid(<<[width |-> 128, data |-> a, offset |-> 26]>>, 26 + DataSize(a))
      [] name = "mixed.ico" ->
            LET b == Png(128, 128, 4, "mixB", <<>>)
            IN IcoFileLaid(<<[width |-> 32, data |-> RawData(40), offset |-> 38],
                             [width |-> 128, data |-> b, offset |-> 78]>>,
                           78 + DataSize(b))
      [] name = "none.ico" -> IcoFileOf(<<>>)
      [] name = "zero.ico" -> IcoFileLaid(<<>>, 0)
      [] name = "renamed.ico" ->
            IcnsFileOf(<< <<"ic07", Png(128, 128, 4, "renA", <<>>)>> >>)
      [] name = "tagfirst.icns" ->
            IcnsFileOf(<< <<"TOC ", RawData(12)>>,
                          <<"ic07", Png(128, 128, 4, "tagA", <<>>)>> >>)
      [] name = "taglast.icns" ->
            IcnsFileOf(<< <<"ic07", Png(128, 128, 4, "tagB", <<>>)>>,
                          <<"info", RawData(12)>> >>)
      [] name = "jp2.icns" ->
            IcnsFileOf(<< <<"ic08", RawData(60)>>,
                          <<"ic07", Png(128, 128, 4, "jp2B", <<>>)>> >>)
      [] name = "many.icns" ->
            IcnsFileOf([k \in 1..(MAX_ICNS_IMAGE_SUPPORTED + 1) |->
                           IF k <= MAX_ICNS_IMAGE_SUPPORTED THEN <<"info", RawData(4)>>
                           ELSE <<"ic07", Png(128, 128, 4, "manyZ", <<>>)>>])
      [] name = "none.icns" -> IcnsFileOf(<<>>)
      [] name = "short.icns" ->
            [IcnsFileOf(<< <<"ic07", Png(128, 128, 4, "shortA", <<>>)>>,
                           <<"info", RawData(0)>> >>)
                 EXCEPT !.chunks[2].size = 4, !.size = @ - 4]
      [] name = "sig4.icns" -> [IcnsFileOf(<<>>) EXCEPT !.bytes = 4]
      [] name = "wrong.icns" ->
            [IcnsFileOf(<< <<"ic07", Png(128, 128, 4, "wrongA", <<>>)>> >>) EXCEPT !.sig = "RIFF"]
      [] OTHER -> NoFile

InputNames == {"logo256.png", "banner.png", "big512.png", "touch152.png", "poem.ico", "app.icns"}

InputFile(name) ==
    CASE name = "logo256.png" -> PngFileOf(Png(256, 256, 3, "logo", <<>>))
      [] name = "banner.png" -> PngFileOf(Png(256, 128, 4, "banner", <<>>))
      [] name = "big512.png" -> PngFileOf(Png(512, 512, 4, "big", <<>>))
      [] name = "touch152.png" -> PngFileOf(Png(152, 152, 4, "touch", <<>>))
      [] name = "poem.ico" ->
            IcoFileOf(<<Png(128, 128, 4, "poemA", Hello),
                        Png(256, 256, 4, "poemB", <<>>),
                        Png(128, 128, 4, "poemC", Hi)>>)
      [] name = "app.icns" ->
            IcnsFileOf(<< <<"ic08", Png(256, 256, 4, "appA", Verse)>>,
                          <<"ic13", Png(256, 256, 4, "appB", <<>>)>>,
                          <<"ic07", Png(128, 128, 4, "appC", Hello)>> >>)
      [] OTHER -> ProbeFile(name)

\* the names the export dialog proposes for the written files
OutputNames == {"icon.ico", "icon.icns"}

\* the extension IsFileExtension() looks at
FileExt(name) ==
    CASE name \in {"poem.ico", "icon.ico"} \cup ProbeIcoNames -> ".ico"
      [] name \in {"app.icns", "icon.icns"} \cup ProbeIcnsNames -> ".icns"
      [] OTHER -> ".png"

\* the content fopen()/LoadImage() find under a name
FileContent(name) ==
    CASE name = "icon.ico" -> disk.ico
      [] name = "icon.icns" -> disk.icns
      [] OTHER -> InputFile(name)

\* LoadImage(fileName) for .png/.bmp/.qoi files
LoadImage(file) == IF file.kind = "png" THEN PngDecode(file.png) ELSE NullImage

\* the loader dispatch at the head of LoadIconToPack and of the command-line loop
LoadEntries(name) ==
    LET file == FileContent(name)
        ico == IF FileExt(name) = ".ico" THEN LoadIconPackFromICO(file)
               ELSE [entries |-> <<>>, count |-> 0, null |-> TRUE]
    IN
    IF FileExt(name) = ".icns" THEN LoadIconPackFromICNS(file)
    ELSE IF FileExt(name) \in {".png", ".bmp", ".qoi"}
         THEN [entries |-> <<[ZeroEntry EXCEPT !.image = LoadImage(file)]>>, count |-> 1,
               null |-> FALSE]
         ELSE ico

LoadIconToPack(pack, name) ==
    LET loaded == LoadEntries(name) IN
    LoadEntriesToPack(pack, loaded.entries, 1, loaded.count)

----------------------------------------------------------------------------
(* Generation of missing sizes (main loop) *)

\* int scaleAlgorythmActive = 1, never assigned again
scaleAlgorythmActive == 1

\* a search that keeps the last valid index instead of the first
BiggerValidSize_last(pack) ==
    IF \E i \in 1..pack.count : pack.entries[i].valid
    THEN CHOOSE i \in 1..pack.count :
             pack.entries[i].valid /\ \A j \in (i + 1)..pack.count : ~pack.entries[j].valid
    ELSE 0

\* "Get bigger available icon": the first valid index, 0 if none (C value -1)
BiggerValidSize(pack) ==
    IF \E i \in 1..pack.count : pack.entries[i].valid
    THEN CHOOSE i \in 1..pack.count :
             pack.entries[i].valid /\ \A j \in 1..(i - 1) : ~pack.entries[j].valid
    ELSE 0

\* a generation that copies the source image without resizing it
GeneratedImage_unscaled(source, size, algo) == source

\* the image generated for a slot from the source image
GeneratedImage(source, size, algo) ==
    IF algo \in {0, 1} THEN ImageResized(source, size, algo) ELSE source

\* a generation without the if (!entries[i].valid) guard
GenerateEntry_overwrite(pack, i, biggerValidSize, algo) ==
    [pack EXCEPT !.entries[i].image =
                     GeneratedImage(pack.entries[biggerValidSize].image,
                                    pack.entries[i].size, algo),
                 !.entries[i].valid = TRUE]

\* the body guarded by if (!entries[i].valid)
GenerateEntry(pack, i, biggerValidSize, algo) ==
    IF ~pack.entries[i].valid
    THEN [pack EXCEPT !.entries[i].image =
                          GeneratedImage(pack.entries[biggerValidSize].image,
                                         pack.entries[i].size, algo),
                      !.entries[i].valid = TRUE]
    ELSE pack

RECURSIVE GenerateAll(_, _, _, _)
GenerateAll(pack, i, biggerValidSize, algo) ==
    IF i > pack.count THEN pack
    ELSE GenerateAll(GenerateEntry(pack, i, biggerValidSize, algo), i + 1, biggerValidSize, algo)

\* a generation that falls back on entry 0 as source when no entry is valid
GenerateIcon_noSourceCheck(pack, listActive, algo) ==
    LET biggerValidSize == IF BiggerValidSize(pack) >= 1 THEN BiggerValidSize(pack) ELSE 1 IN
    IF listActive = 0 THEN GenerateAll(pack, 1, biggerValidSize, algo)
    ELSE IF listActive <= pack.count THEN GenerateEntry(pack, listActive, biggerValidSize, algo)
    ELSE pack

\* the whole "Generate new icon image" block, for an index within the pack
GenerateIcon(pack, listActive, algo) ==
    LET biggerValidSize == BiggerValidSize(pack) IN
    IF biggerValidSize >= 1
    THEN IF listActive = 0 THEN GenerateAll(pack, 1, biggerValidSize, algo)
         ELSE GenerateEntry(pack, listActive, biggerValidSize, algo)
    ELSE pack

\* the whole "Delete selected icon from list" block, for an index within the pack
ClearIcon(pack, listActive) ==
    IF listActive = 0 THEN UnloadAllFromPack(pack, 1)
    ELSE UnloadIconFromPack(pack, listActive - 1 + 1)

----------------------------------------------------------------------------
(* Command-line flow: ProcessCommandLine *)

\* the --out-sizes loop run from value j on: a valid value k is stored at
\* outSizes[k], the counter is advanced by one for each (arrays are 1-based here)
ParseOutSizes(values, j, st) ==
    [outSizes |-> [k \in DOMAIN st.outSizes |->
                      IF k >= j /\ k <= Len(values) /\ (values[k] > 0) /\ (values[k] <= 256)
                      THEN values[k]
                      ELSE st.outSizes[k]],
     outSizesCount |-> st.outSizesCount
                         + Cardinality({k \in j..Len(values) :
                                           (values[k] > 0) /\ (values[k] <= 256)})]

\* "Generate output sizes list by platform scheme": the scheme is appended at
\* outSizes[outSizesCount]
RECURSIVE AppendSchemeSizes(_, _, _)
AppendSchemeSizes(st, platform, i) ==
    IF i > PackCount(platform) THEN st
    ELSE AppendSchemeSizes(
             [outSizes |-> [st.outSizes EXCEPT ![st.outSizesCount + 1] = PackSizes(platform)[i]],
              outSizesCount |-> st.outSizesCount + 1],
             platform, i + 1)

\* "Process and validate all loaded entries" of one input file
RECURSIVE AddToInputPack(_, _, _, _)
AddToInputPack(inputPack, entries, j, imCount) ==
    IF j > imCount THEN inputPack
    ELSE AddToInputPack(
             IF entries[j].image.width # entries[j].image.height THEN inputPack
             ELSE Append(inputPack,
                         [size |-> entries[j].image.width,
                          valid |-> TRUE,
                          image |-> ImageFormatRGBA(entries[j].image),
                          text |-> MemCpy(ZeroText, entries[j].text, StrLen(entries[j].text))]),
             entries, j + 1, imCount)

\* "Load input files (all of them) into icon pack"
RECURSIVE LoadInputFiles(_, _, _)
LoadInputFiles(inputFiles, i, inputPack) ==
    IF i > Len(inputFiles) THEN inputPack
    ELSE LET loaded == LoadEntries(inputFiles[i]) IN
         LoadInputFiles(inputFiles, i + 1,
                        AddToInputPack(inputPack, loaded.entries, 1, loaded.count))

\* inputPack[k] of the zero-initialized array IconPackEntry inputPack[MAX_ICONS_PACK]
InputPackAt(inputPack, k) == IF k <= Len(inputPack) THEN inputPack[k] ELSE ZeroEntry

\* "Get bigger available input image": biggerSizeIndex (1-based) after the loop
\* has looked at inputPack[2..i]
RECURSIVE BiggerSizeIndex(_, _)
BiggerSizeIndex(inputPack, i) ==
    IF i <= 1 THEN 1
    ELSE LET prev == BiggerSizeIndex(inputPack, i - 1) IN
         IF inputPack[i].size > InputPackAt(inputPack, prev).size THEN i ELSE prev

\* index of the first input entry of the given size, 0 if none
CopyIndex(inputPack, size) ==
    IF \E j \in 1..Len(inputPack) : inputPack[j].size = size
    THEN CHOOSE j \in 1..Len(inputPack) :
             inputPack[j].size = size /\ \A k \in 1..(j - 1) : inputPack[k].size # size
    ELSE 0

\* the image ImageResize()/ImageResizeNN() leave for the command-line algorithms 1 and 2
CliGeneratedImage(source, size, scaleAlgorythm) ==
    IF scaleAlgorythm \in {1, 2} THEN ImageResized(source, size, scaleAlgorythm) ELSE source

\* "Copy from inputPack or generate if required": outPack[i]
OutPackEntry(inputPack, biggerSizeIndex, size, scaleAlgorythm) ==
    LET j == CopyIndex(inputPack, size) IN
    [size |-> size,
     valid |-> TRUE,
     image |-> IF j >= 1 THEN inputPack[j].image
               ELSE CliGeneratedImage(InputPackAt(inputPack, biggerSizeIndex).image,
                                      size, scaleAlgorythm),
     text |-> ZeroText]

\* the part of ProcessCommandLine run when input files are given
ProcessCommandLine(inputFiles, outSizesArg, outPlatform, scaleAlgorythm) ==
    LET requested == ParseOutSizes(outSizesArg, 1,
                        [outSizes |-> [k \in 1..(MAX_OUTPUT_SIZES + 16) |-> 0],
                         outSizesCount |-> 0])
        inputPack == LoadInputFiles(inputFiles, 1, <<>>)
        biggerSizeIndex == BiggerSizeIndex(inputPack, Len(inputPack))
        sized == AppendSchemeSizes(requested, outPlatform, 1)
        outPack == [i \in 1..sized.outSizesCount |->
                       OutPackEntry(inputPack, biggerSizeIndex, sized.outSizes[i], scaleAlgorythm)]
    IN
    [ran |-> TRUE,
     aborted |-> FALSE,
     inputFiles |-> inputFiles,
     outSizesArg |-> outSizesArg,
     inputPack |-> inputPack,
     inputPackCount |-> Len(inputPack),
     biggerSizeIndex |-> biggerSizeIndex,
     biggerSize |-> InputPackAt(inputPack, biggerSizeIndex).size,
     outSizes |-> SubSeq(sized.outSizes, 1, sized.outSizesCount),
     outSizesCount |-> sized.outSizesCount,
     outPack |-> outPack,
     outName |-> IF outPlatform = 1 THEN "output.icns" ELSE "output.ico",
     outFile |-> IF outPlatform = 1
                 THEN SaveIconPackToICNS(outPack, sized.outSizesCount)
                 ELSE SaveIconPackToICO(outPack, sized.outSizesCount, exportTextChunkChecked)]

----------------------------------------------------------------------------
(* The program: main() *)

NoExport == [fmt |-> -1, platform |-> 0, entries |-> <<>>, flag |-> FALSE]
NoCli == [ran |-> FALSE]

Init ==
    /\ mode = "start"
    /\ charSigned \in BOOLEAN
    /\ packs = [p \in Platforms |-> ZeroPack]
    /\ platformActive = 0
    /\ sizeListActive = 0
    /\ exportTextChunkChecked = TRUE
    /\ disk = [ico |-> NoFile, icns |-> NoFile, png |-> <<>>]
    /\ saved = NoExport
    /\ op = [name |-> "none", file |-> ""]
    /\ oob = FALSE
    /\ ops = 0
    /\ cli = NoCli
    /\ life = [p \in Platforms |-> 0]

\* entries[sizeListActive - 1] lies within the active pack
InRange(ps, platform, listActive) == listActive <= ps[platform].count

\* the frame's drawing code reads entries[sizeListActive - 1] of the active pack
FrameOob(ps, platform, listActive) == oob \/ ~InRange(ps, platform, listActive)

\* GUI mode initialization: the five packs, and the file given on the command line
StartGUI(name) ==
    /\ mode = "start"
    /\ mode' = "gui"
    /\ packs' = [p \in Platforms |->
                    IF name # "" /\ p = platformActive
                    THEN LoadIconToPack(InitIconPack(p), name)
                    ELSE InitIconPack(p)]
    /\ life' = [p \in Platforms |-> life[p] + 1]
    /\ op' = [name |-> "StartGUI", file |-> name]
    /\ ops' = IF name = "" THEN 0 ELSE 1
    /\ UNCHANGED <<charSigned, platformActive, sizeListActive, exportTextChunkChecked,
                   disk, saved, oob, cli>>

GuiEvent == mode = "gui" /\ ops < MaxOps /\ ops' = ops + 1

\* dropped files logic / load file dialog
DropFile(name) ==
    /\ GuiEvent
    /\ packs' = [packs EXCEPT ![platformActive] = LoadIconToPack(@, name)]
    /\ op' = [name |-> "LoadIconToPack", file |-> name]
    /\ UNCHANGED <<life, mode, charSigned, platformActive, sizeListActive,
                   exportTextChunkChecked, disk, saved, oob, cli>>

\* new file: the active pack is closed and initialized again
NewFile ==
    /\ GuiEvent
    /\ packs' = [packs EXCEPT ![platformActive] = InitIconPack(platformActive)]
    /\ life' = [life EXCEPT ![platformActive] = (@ - 1) + 1]
    /\ op' = [name |-> "NewFile", file |-> ""]
    /\ UNCHANGED <<mode, charSigned, platformActive, sizeListActive,
                   exportTextChunkChecked, disk, saved, oob, cli>>

\* delete key / clear button
DeleteIcon ==
    /\ GuiEvent
    /\ op' = [name |-> "ClearIcon", file |-> ""]
    /\ IF InRange(packs, platformActive, sizeListActive)
       THEN /\ packs' = [packs EXCEPT ![platformActive] = ClearIcon(@, sizeListActive)]
            /\ UNCHANGED <<mode, oob>>
       ELSE /\ oob' = TRUE
            /\ mode' \in {"gui", "crashed"}
            /\ UNCHANGED packs
    /\ UNCHANGED <<life, charSigned, platformActive, sizeListActive,
                   exportTextChunkChecked, disk, saved, cli>>

\* Ctrl+G / generate button
GenerateIconImage ==
    /\ GuiEvent
    /\ op' = [name |-> "GenerateIcon", file |-> ""]
    /\ IF InRange(packs, platformActive, sizeListActive)
          \/ BiggerValidSize(packs[platformActive]) = 0
       THEN /\ packs' = [packs EXCEPT ![platformActive] =
                            GenerateIcon(@, sizeListActive, scaleAlgorythmActive)]
            /\ UNCHANGED <<mode, oob>>
       ELSE /\ oob' = TRUE
            /\ mode' \in {"gui", "crashed"}
            /\ UNCHANGED packs
    /\ UNCHANGED <<life, charSigned, platformActive, sizeListActive,
                   exportTextChunkChecked, disk, saved, cli>>

\* GuiListView(): an item of the active pack's list is clicked
SelectSize(n) ==
    /\ GuiEvent
    /\ n \in 0..packs[platformActive].count
    /\ n # sizeListActive
    /\ sizeListActive' = n
    /\ op' = [name |-> "SelectSize", file |-> ""]
    /\ oob' = FrameOob(packs, platformActive, n)
    /\ UNCHANGED <<life, mode, charSigned, packs, platformActive,
                   exportTextChunkChecked, disk, saved, cli>>

\* GuiMainToolbar(): another platform is chosen
SelectPlatform(p) ==
    /\ GuiEvent
    /\ p # platformActive
    /\ platformActive' = p
    /\ op' = [name |-> "SelectPlatform", file |-> ""]
    /\ oob' = FrameOob(packs, p, sizeListActive)
    /\ UNCHANGED <<life, mode, charSigned, packs, sizeListActive,
                   exportTextChunkChecked, disk, saved, cli>>

\* GuiTextBox() on the selected entry's text, enabled only for a valid entry
EditText(t) ==
    /\ GuiEvent
    /\ sizeListActive > 0
    /\ InRange(packs, platformActive, sizeListActive)
    /\ packs[platformActive].entries[sizeListActive].valid
    /\ Len(t) < MAX_IMAGE_TEXT_SIZE
    /\ packs' = [packs EXCEPT ![platformActive].entries[sizeListActive].text =
                    MemCpy(@, Append(t, 0), Len(t) + 1)]
    /\ op' = [name |-> "EditText", file |-> ""]
    /\ UNCHANGED <<life, mode, charSigned, platformActive, sizeListActive,
                   exportTextChunkChecked, disk, saved, oob, cli>>

\* the export formats the chosen path offers: the export window (Ctrl+E) with its
\* combo box, or the save dialog (Ctrl+S / save button)
ExportFormats(viaWindow) ==
    IF viaWindow
    THEN (IF platformActive = ICON_PLATFORM_MACOS THEN {0, 1, 2} ELSE {0, 1})
    ELSE (IF platformActive = ICON_PLATFORM_MACOS THEN {1} ELSE {0})

\* export file dialog and saving logic
ExportFile(exportFormatActive, viaWindow, checked) ==
    LET pack == packs[platformActive]
        flag == IF viaWindow THEN checked ELSE TRUE
        ico == SaveIconPackToICO(pack.entries, pack.count, flag)
        icns == SaveIconPackToICNS(pack.entries, pack.count)
        pngs == ExportIconPackImages(pack.entries, pack.count, flag)
    IN
    /\ GuiEvent
    /\ viaWindow => ValidCount(pack.entries) > 0
    /\ exportFormatActive \in ExportFormats(viaWindow)
    /\ exportTextChunkChecked' = flag
    /\ disk' = CASE exportFormatActive = 0 /\ ico # NoFile -> [disk EXCEPT !.ico = ico]
                 [] exportFormatActive = 1 /\ pngs # <<>> -> [disk EXCEPT !.png = pngs]
                 [] exportFormatActive = 2 /\ icns # NoFile -> [disk EXCEPT !.icns = icns]
                 [] OTHER -> disk
    /\ saved' = [fmt |-> exportFormatActive, platform |-> platformActive,
                 entries |-> pack.entries, flag |-> flag]
    /\ op' = [name |-> "ExportFile", file |-> ""]
    /\ UNCHANGED <<life, mode, charSigned, packs, platformActive, sizeListActive, oob, cli>>

\* exit window confirmed: de-initialization, for (int i = 0; i < 4; i++) CloseIconPack(&packs[i])
CloseProgram ==
    /\ GuiEvent
    /\ mode' = "closed"
    /\ life' = [p \in Platforms |-> IF p < 4 THEN life[p] - 1 ELSE life[p]]
    /\ op' = [name |-> "CloseProgram", file |-> ""]
    /\ UNCHANGED <<charSigned, packs, platformActive, sizeListActive,
                   exportTextChunkChecked, disk, saved, oob, cli>>

\* outSizes[outSizesCount] was written at or past index MAX_OUTPUT_SIZES
OutSizesOverrun(done) == done.outSizesCount > MAX_OUTPUT_SIZES

\* the results a run can end with: a write past int outSizes[MAX_OUTPUT_SIZES] either
\* goes unnoticed or ends the run before the file is written
CliOutcomes(done) ==
    IF OutSizesOverrun(done)
    THEN {done, [done EXCEPT !.aborted = TRUE, !.outFile = NoFile]}
    ELSE {done}

\* command-line usage mode: main() hands over to ProcessCommandLine and returns
RunCommandLine(inputFiles, outSizesArg, outPlatform, scaleAlgorythm) ==
    /\ mode = "start"
    /\ cli' \in CliOutcomes(
                  IF inputFiles = <<>>
                  THEN [ran |-> TRUE, aborted |-> FALSE, inputFiles |-> <<>>,
                        outSizesArg |-> outSizesArg, inputPackCount |-> 0,
                        outSizesCount |-> 0, outFile |-> NoFile]
                  ELSE ProcessCommandLine(inputFiles, outSizesArg, outPlatform,
                                          scaleAlgorythm))
    /\ mode' = IF cli'.aborted THEN "aborted" ELSE "cli"
    /\ op' = [name |-> "ProcessCommandLine", file |-> ""]
    /\ UNCHANGED <<life, charSigned, packs, platformActive, sizeListActive,
                   exportTextChunkChecked, disk, saved, oob, ops>>

\* the lists of input files given with --input
RECURSIVE InputLists(_)
InputLists(n) ==
    IF n = 0 THEN {<<>>}
    ELSE InputLists(n - 1) \cup
         {Append(l, name) : l \in {x \in InputLists(n - 1) : Len(x) = n - 1}, name \in InputNames}

\* the lists given with --out-sizes (none, valid values, an invalid value first)
OutSizesArgs == {<<>>, <<256, 40>>, <<0, 32>>}

\* a list of 57 valid sizes given with --out-sizes
ManySizes == [k \in 1..57 |-> 16]

\* the texts typed into the text box
TypedTexts == {<<>>, Hi}

Next ==
    \/ \E name \in {"", "logo256.png", "poem.ico"} : StartGUI(name)
    \/ \E name \in InputNames \cup OutputNames : DropFile(name)
    \/ NewFile
    \/ DeleteIcon
    \/ GenerateIconImage
    \/ \E n \in 0..10 : SelectSize(n)
    \/ \E p \in Platforms : SelectPlatform(p)
    \/ \E t \in TypedTexts : EditText(t)
    \/ \E f \in 0..2, w \in BOOLEAN, c \in BOOLEAN : ExportFile(f, w, c)
    \/ CloseProgram
    \/ \E l \in InputLists(MaxInputFiles), os \in OutSizesArgs, p \in Platforms, sa \in {1, 2} :
           RunCommandLine(l, os, p, sa)

Spec == Init /\ [][Next]_vars

\* the program run on the hand-made container files
NextFiles ==
    \/ StartGUI("")
    \/ \E name \in ProbeNames : DropFile(name)
    \/ \E p \in Platforms : SelectPlatform(p)
    \/ CloseProgram
    \/ \E name \in ProbeNames, os \in {<<>>, ManySizes}, p \in {0, 1} :
           RunCommandLine(<<name>>, os, p, 1)

SpecFiles == Init /\ [][NextFiles]_vars

----------------------------------------------------------------------------
(* Properties *)

ActivePack == packs[platformActive]

\* the size lists the specification publishes for the five platforms
PublishedScheme(p) ==
    CASE p = 0 -> <<256, 128, 96, 64, 48, 32, 24, 16>>
      [] p = 1 -> <<1024, 512, 256, 128, 64, 48, 32, 16>>
      [] p = 2 -> <<228, 152, 144, 120, 96, 72, 64, 32, 24, 16>>
      [] p = 3 -> <<192, 144, 96, 72, 64, 48, 36, 32, 24, 16>>
      [] p = 4 -> <<180, 152, 120, 87, 80, 76, 58, 40, 29>>

PacksExist == mode \in {"gui", "crashed", "closed"}

AllInvalid(pack) == \A i \in 1..Len(pack.entries) : ~pack.entries[i].valid

\* C1: every pack has one entry per size of its platform's table, entries[i].size ==
\* sizes[i] holds in every reachable state, and a pack just made by InitIconPack
\* (program start, new file) has every entry invalid.
C1_SizeBinding ==
    PacksExist =>
        \A p \in Platforms :
            /\ packs[p].count = Len(PublishedScheme(p))
            /\ Len(packs[p].entries) = Len(PublishedScheme(p))
            /\ \A i \in 1..Len(packs[p].entries) :
                   /\ packs[p].entries[i].size = PublishedScheme(p)[i]
                   /\ packs[p].entries[i].size = packs[p].sizes[i]
            /\ (op.name = "StartGUI" /\ op.file = "") => AllInvalid(packs[p])
            /\ (op.name = "NewFile" /\ p = platformActive) => AllInvalid(packs[p])

\* C1 witness: the iOS pack after a load and a generation of all its nine sizes
C1_Witness ==
    /\ mode = "gui" /\ platformActive = ICON_PLATFORM_IOS7
    /\ op.name = "GenerateIcon"
    /\ \A i \in 1..9 : packs[4].entries[i].valid
    /\ packs[4].entries[2].image.data.px = "touch"

\* the pack a fresh pack of the exporting platform becomes when the exported file
\* is loaded into it
Reimported ==
    LoadIconToPack(InitIconPack(saved.platform),
                   IF saved.fmt = 0 THEN "icon.ico" ELSE "icon.icns")

ExportedContainer == saved.fmt \in {0, 2} /\ ValidCount(saved.entries) > 0

\* C2: after SaveIconPackToICO or SaveIconPackToICNS, loading the written file into
\* a fresh pack of the same scheme gives the same valid slots, each with the image
\* it had when the pack was saved.
C2_ImageRoundTrip ==
    ExportedContainer =>
        \A i \in 1..Len(saved.entries) :
            /\ Reimported.entries[i].valid = saved.entries[i].valid
            /\ saved.entries[i].valid =>
                   Reimported.entries[i].image = saved.entries[i].image

\* C3: after SaveIconPackToICO and a load into a fresh pack, every valid entry has
\* the text it had before the export when exportTextChunkChecked was true, and
\* empty text when it was false.
C3_IcoTextRoundTrip ==
    (ExportedContainer /\ saved.fmt = 0) =>
        \A i \in 1..Len(saved.entries) :
            saved.entries[i].valid =>
                CStr(Reimported.entries[i].text) =
                    (IF saved.flag THEN CStr(saved.entries[i].text) ELSE <<>>)

\* C4: after SaveIconPackToICNS with the text-export flag enabled and a load into a
\* fresh macOS pack, every valid entry that carried a text has the same text.
C4_IcnsTextRoundTrip ==
    (ExportedContainer /\ saved.fmt = 2 /\ saved.flag) =>
        \A i \in 1..Len(saved.entries) :
            (saved.entries[i].valid /\ CStr(saved.entries[i].text) # <<>>) =>
                CStr(Reimported.entries[i].text) = CStr(saved.entries[i].text)

\* a decoded image LoadIconToPack must not place: not square, or of no size of the scheme
Rejected(pack, image) ==
    \/ image.width # image.height
    \/ \A k \in 1..Len(pack.sizes) : pack.sizes[k] # image.width

\* the names a file can be loaded from
LoadableNames == InputNames \cup OutputNames

\* C5: a decoded image that is not square, or whose size is none of the pack's
\* sizes, leaves every entry of the pack unchanged when LoadIconToPack processes it.
C5_RejectedImageLeavesPack ==
    PacksExist =>
        \A name \in LoadableNames :
            LET loaded == LoadEntries(name) IN
            \A j \in 1..loaded.count :
                LET entry == loaded.entries[j] IN
                \A p \in Platforms :
                    Rejected(packs[p], entry.image) =>
                        LoadEntryToPack(packs[p], entry) = packs[p]

\* C5 witness: a non-square image was loaded into a pack that holds valid entries
C5_Witness ==
    /\ mode = "gui" /\ op.name = "LoadIconToPack" /\ op.file = "banner.png"
    /\ platformActive = ICON_PLATFORM_WINDOWS
    /\ ActivePack.entries[1].valid /\ ~ActivePack.entries[2].valid

\* the first decoded square image of the given size
FirstOfSize(entries, size) ==
    entries[CHOOSE j \in 1..Len(entries) :
                /\ entries[j].image.width = size /\ entries[j].image.height = size
                /\ \A k \in 1..(j - 1) :
                       ~(entries[k].image.width = size /\ entries[k].image.height = size)]

\* C6: a load changes no slot that is already valid, and a slot it fills holds the
\* first image of that size in the loaded file.
C6_FirstLoadedWins ==
    [][op'.name = "LoadIconToPack" =>
          \A i \in 1..ActivePack.count :
              /\ ActivePack.entries[i].valid =>
                     packs'[platformActive].entries[i] = ActivePack.entries[i]
              /\ (~ActivePack.entries[i].valid /\ packs'[platformActive].entries[i].valid) =>
                     packs'[platformActive].entries[i].image.data =
                         FirstOfSize(LoadEntries(op'.file).entries,
                                     ActivePack.entries[i].size).image.data]_vars

\* C6 witness: a container with two 256x256 images and one 128x128 image was loaded
\* into a pack whose 256 slot was already valid
C6_Witness ==
    /\ mode = "gui" /\ op.name = "LoadIconToPack" /\ op.file = "app.icns"
    /\ platformActive = ICON_PLATFORM_WINDOWS
    /\ ActivePack.entries[1].image.data.px = "logo"
    /\ ActivePack.entries[2].valid

\* C7: every invalid entry has empty text and holds the placeholder image.
C7_InvalidIsPlaceholder ==
    PacksExist =>
        \A p \in Platforms :
            \A i \in 1..Len(packs[p].entries) :
                ~packs[p].entries[i].valid =>
                    /\ CStr(packs[p].entries[i].text) = <<>>
                    /\ packs[p].entries[i].image = PlaceholderImage(packs[p].entries[i].size)

\* C8: after generation with the 'all' selection on a pack with a valid entry, every
\* entry is valid and holds an image of its slot's size.
C8_GenerateAllFillsPack ==
    (mode = "gui" /\ op.name = "GenerateIcon" /\ sizeListActive = 0
        /\ ValidCount(ActivePack.entries) > 0) =>
        /\ ValidCount(ActivePack.entries) = Len(PublishedScheme(platformActive))
        /\ \A i \in 1..ActivePack.count :
               /\ ActivePack.entries[i].valid
               /\ ActivePack.entries[i].image.width = ActivePack.entries[i].size
               /\ ActivePack.entries[i].image.height = ActivePack.entries[i].size

\* C8 witness: the Windows pack after one 256x256 image and a generation of all sizes
C8_Witness ==
    /\ mode = "gui" /\ op.name = "GenerateIcon" /\ sizeListActive = 0
    /\ platformActive = ICON_PLATFORM_WINDOWS
    /\ ValidCount(ActivePack.entries) = 8
    /\ ActivePack.entries[1].image.data = [px |-> "logo", scaled |-> <<>>]
    /\ \A i \in 2..8 : ActivePack.entries[i].image.data.px = "logo"
    /\ ActivePack.entries[8].image.data.scaled = << <<1, 256, 16>> >>

\* C9: generation changes no entry that is already valid, and generating again
\* after a generation changes nothing.
C9_GenerateKeepsValid ==
    [][op'.name = "GenerateIcon" =>
          /\ \A i \in 1..ActivePack.count :
                 ActivePack.entries[i].valid =>
                     packs'[platformActive].entries[i] = ActivePack.entries[i]
          /\ InRange(packs', platformActive, sizeListActive) =>
                 GenerateIcon(packs'[platformActive], sizeListActive, scaleAlgorythmActive)
                     = packs'[platformActive]]_vars

\* C9 witness: one selected size was generated, other sizes are still missing
C9_Witness ==
    /\ mode = "gui" /\ op.name = "GenerateIcon" /\ sizeListActive > 1
    /\ InRange(packs, platformActive, sizeListActive)
    /\ ActivePack.entries[sizeListActive].valid
    /\ ActivePack.entries[sizeListActive].image.data.scaled # <<>>
    /\ ValidCount(ActivePack.entries) = 2

\* the sizes of the valid entries
ValidSizes(entries) == {entries[i].size : i \in {j \in 1..Len(entries) : entries[j].valid}}

\* the valid entry of the largest size
LargestValid(entries) ==
    entries[CHOOSE i \in 1..Len(entries) :
                entries[i].valid /\ \A s \in ValidSizes(entries) : s <= entries[i].size]

\* C10: the image a missing size is generated from is that of the valid entry with
\* the largest size: in the GUI every entry a generation fills is resampled from it,
\* in the command-line flow inputPack[biggerSizeIndex] is it and every generated
\* output is resampled from it.
C10_SourceIsLargest ==
    [][/\ op'.name = "GenerateIcon" =>
              \A i \in 1..ActivePack.count :
                  (~ActivePack.entries[i].valid /\ packs'[platformActive].entries[i].valid) =>
                      packs'[platformActive].entries[i].image =
                          ImageResized(LargestValid(ActivePack.entries).image,
                                       ActivePack.entries[i].size, scaleAlgorythmActive)
       /\ (mode' = "cli" /\ cli'.inputPackCount > 0) =>
              /\ cli'.inputPack[cli'.biggerSizeIndex].valid
              /\ \A j \in 1..cli'.inputPackCount :
                     cli'.inputPack[j].size <= cli'.inputPack[cli'.biggerSizeIndex].size
              /\ cli'.biggerSize = cli'.inputPack[cli'.biggerSizeIndex].size
              /\ \A i \in 1..Len(cli'.outPack) :
                     cli'.outPack[i].image.data.scaled # <<>> =>
                         /\ cli'.outPack[i].image.data.px
                                = cli'.inputPack[cli'.biggerSizeIndex].image.data.px
                         /\ cli'.outPack[i].image.data.scaled[1][2] = cli'.biggerSize]_vars

\* C10 witness: a size was generated in a pack holding two valid sizes
C10_Witness ==
    /\ mode = "gui" /\ op.name = "GenerateIcon"
    /\ platformActive = ICON_PLATFORM_WINDOWS
    /\ ActivePack.entries[1].image.data.px = "appA"
    /\ ActivePack.entries[2].image.data.px = "appC"
    /\ ActivePack.entries[3].image.data = [px |-> "appA", scaled |-> << <<1, 256, 96>> >>]

\* C11: a generation on a pack without valid entry changes nothing, with the 'all'
\* selection and with a single selected size.
C11_GenerateWithoutSourceIsNoOp ==
    [][(op'.name = "GenerateIcon" /\ ValidCount(ActivePack.entries) = 0) =>
          packs' = packs]_vars

\* C11 witness: generation was asked for one selected size of a pack without valid entry
C11_Witness ==
    /\ mode = "gui" /\ op.name = "GenerateIcon"
    /\ sizeListActive > 0
    /\ InRange(packs, platformActive, sizeListActive)
    /\ ValidCount(ActivePack.entries) = 0

\* C12: clearing a selected valid entry makes it invalid with the placeholder image
\* of its size, clearing an invalid entry changes nothing, every other entry is
\* unchanged, and clearing with the 'all' selection leaves every entry invalid.
C12_UnloadFrame ==
    [][(op'.name = "ClearIcon" /\ InRange(packs, platformActive, sizeListActive)) =>
          /\ \A p \in Platforms \ {platformActive} : packs'[p] = packs[p]
          /\ packs'[platformActive].count = ActivePack.count
          /\ packs'[platformActive].sizes = ActivePack.sizes
          /\ \A i \in 1..ActivePack.count :
                 IF sizeListActive = 0 \/ sizeListActive = i
                 THEN /\ ~packs'[platformActive].entries[i].valid
                      /\ packs'[platformActive].entries[i].size = ActivePack.entries[i].size
                      /\ packs'[platformActive].entries[i].image =
                             PlaceholderImage(ActivePack.entries[i].size)
                      /\ ~ActivePack.entries[i].valid =>
                             packs'[platformActive].entries[i] = ActivePack.entries[i]
                 ELSE packs'[platformActive].entries[i] = ActivePack.entries[i]]_vars

\* C12 witness: one selected entry was cleared while another entry stays valid
C12_Witness ==
    /\ mode = "gui" /\ op.name = "ClearIcon"
    /\ platformActive = ICON_PLATFORM_WINDOWS /\ sizeListActive = 2
    /\ ActivePack.entries[1].valid
    /\ ActivePack.entries[1].image.data.px = "appA"
    /\ ~ActivePack.entries[2].valid
    /\ ActivePack.entries[2].image = PlaceholderImage(128)

\* the index of the k-th valid entry, counting in pack order
KthValid(entries, k) ==
    CHOOSE i \in 1..Len(entries) :
        entries[i].valid /\ Cardinality({j \in 1..i : entries[j].valid}) = k

\* file f is laid out as the ICO of the valid entries of a pack
IcoLayout(f, entries, flag) ==
    LET N == ValidCount(entries) IN
    /\ f.kind = "ico"
    /\ f.header.imageCount = N
    /\ Len(f.dir) = N /\ Len(f.body) = N
    /\ \A k \in 1..N :
           /\ f.body[k].data = PngOfEntry(entries[KthValid(entries, k)], flag)
           /\ f.dir[k].size = DataSize(f.body[k].data)
           /\ f.body[k].at = f.dir[k].offset
    /\ f.dir[1].offset = 6 + 16 * N
    /\ \A k \in 1..(N - 1) : f.dir[k + 1].offset = f.dir[k].offset + f.dir[k].size
    /\ f.dir[N].offset + f.dir[N].size = f.bytes

\* C13: an ICO written from a pack with N valid entries declares N images, has N
\* directory entries and N payloads in the pack order of the valid entries; the first
\* offset is 6 + 16N, each next offset is the previous offset plus the previous size,
\* and the last offset plus the last size is the length of the file.
C13_IcoLayout ==
    /\ (saved.fmt = 0 /\ ValidCount(saved.entries) > 0) =>
           IcoLayout(disk.ico, saved.entries, saved.flag)
    /\ (cli.ran /\ cli.inputPackCount > 0 /\ cli.outName = "output.ico"
           /\ ValidCount(cli.outPack) > 0) =>
           IcoLayout(cli.outFile, cli.outPack, exportTextChunkChecked)

C13_Witness ==
    /\ saved.fmt = 0 /\ saved.platform = ICON_PLATFORM_MACOS
    /\ ValidCount(saved.entries) = 2
    /\ ~saved.entries[1].valid /\ saved.entries[3].valid /\ saved.entries[4].valid
    /\ disk.ico.header.imageCount = 2
    /\ Len(disk.ico.dir) = 2
    /\ disk.ico.dir[2].offset = disk.ico.dir[1].offset + disk.ico.dir[1].size

\* a directory width or height byte read with the convention that 0 stands for 256
IcoDimensionRead(b) == IF b = 0 THEN 256 ELSE b

\* C14: in every ICO written by an export, the directory width and height bytes of
\* every entry, read back with 0 standing for 256, equal the dimension of the image
\* written for that entry.
C14_DirDimension ==
    (saved.fmt = 0 /\ ValidCount(saved.entries) > 0) =>
        \A k \in 1..Len(disk.ico.dir) :
            LET image == saved.entries[KthValid(saved.entries, k)].image IN
            /\ IcoDimensionRead(disk.ico.dir[k].width) = image.width
            /\ IcoDimensionRead(disk.ico.dir[k].height) = image.height

\* C15: an export of entries none of which is valid writes nothing: after an export
\* of a pack without a valid entry the files on disk are as they were, and for every
\* pack without a valid entry each of the three export functions yields no file.
C15_EmptyExportWritesNothing ==
    [][/\ (op'.name = "ExportFile" /\ ValidCount(ActivePack.entries) = 0) => disk' = disk
       /\ \A p \in Platforms :
              ValidCount(packs'[p].entries) = 0 =>
                  /\ SaveIconPackToICO(packs'[p].entries, packs'[p].count, TRUE) = NoFile
                  /\ SaveIconPackToICNS(packs'[p].entries, packs'[p].count) = NoFile
                  /\ ExportIconPackImages(packs'[p].entries, packs'[p].count, TRUE) = <<>>]_vars

C15_Witness ==
    /\ mode = "gui" /\ op.name = "ExportFile"
    /\ ValidCount(ActivePack.entries) = 0
    /\ saved.fmt = 0 /\ saved.entries = ActivePack.entries
    /\ disk.ico = NoFile

\* a file was just handed to LoadIconToPack
JustLoaded(ext) == op.name = "LoadIconToPack" /\ FileExt(op.file) = ext

\* the PNG payloads that lie, whole, at the offset of directory entry i of an ICO file
IcoPayloadsOf(file, i) ==
    {file.body[b].data : b \in {c \in 1..Len(file.body) :
                                    /\ file.body[c].at = file.dir[i].offset
                                    /\ DataSize(file.body[c].data) = file.dir[i].size
                                    /\ file.body[c].data.sig = "PNG"}}

\* C16: the ICO loader decodes directory entry i from the bytes at that entry's
\* offset: for a file with a whole directory, every entry whose offset and size
\* delimit a PNG payload is decoded to that payload's image and text, wherever the
\* payloads lie in the file (plain char unsigned, so that signatures are recognised).
C16_IcoDecodeByOffset ==
    (JustLoaded(".ico") /\ ~charSigned /\ FileContent(op.file).kind = "ico") =>
        LET file == FileContent(op.file)
            loaded == LoadIconPackFromICO(file)
        IN
        file.bytes >= 6 + 16 * Len(file.dir) =>
            \A i \in 1..Len(file.dir) :
                \A d \in IcoPayloadsOf(file, i) :
                    /\ i <= Len(loaded.entries)
                    /\ loaded.entries[i] = DecodedEntry(d)

\* an ICO file with its whole directory and with payload k stored where the reads of
\* directory entries 1..k-1 end
Sequential(file) ==
    /\ file.bytes >= 6 + 16 * Len(file.dir)
    /\ \A i \in 1..Len(file.dir) : file.dir[i].offset = IcoReadPos(file, i)

\* the count an ICO or ICNS loader returned for the file just loaded is the number of
\* its PNG payloads (ICNS: in chunks of a recognised OSType)
SkippedNotCounted ==
    /\ (JustLoaded(".ico") /\ ~charSigned /\ FileContent(op.file).kind = "ico") =>
           LET file == FileContent(op.file) IN
           Sequential(file) =>
               LoadIconPackFromICO(file).count =
                   Cardinality({b \in 1..Len(file.body) : file.body[b].data.sig = "PNG"})
    /\ (JustLoaded(".icns") /\ FileContent(op.file).kind = "icns") =>
           LET file == FileContent(op.file) IN
           (file.sig = "icns" /\ file.bytes >= 8 /\ Len(file.chunks) <= MAX_ICNS_IMAGE_SUPPORTED) =>
               LoadIconPackFromICNS(file).count =
                   Cardinality({c \in 1..Len(file.chunks) :
                                   /\ file.chunks[c].type \in IcnsSupportedTypes
                                   /\ file.chunks[c].data.sig = "PNG"})

\* the PNG payloads that follow a payload without signature are still decoded
DecodeContinues ==
    /\ (JustLoaded(".ico") /\ ~charSigned /\ op.file = "mixed.ico") =>
           LoadIconPackFromICO(FileContent(op.file)).entries[2].image.data.px = "mixB"
    /\ (JustLoaded(".icns") /\ op.file = "jp2.icns") =>
           LoadIconPackFromICNS(FileContent(op.file)).entries[1].image.data.px = "jp2B"

\* no valid entry of a GUI pack holds the image of a payload that was not decoded
SkippedNotInGuiPack ==
    PacksExist =>
        \A p \in Platforms : \A i \in 1..Len(packs[p].entries) :
            packs[p].entries[i].valid => packs[p].entries[i].image # NullImage

\* no entry of the command-line input pack holds the image of a payload that was not
\* decoded
SkippedNotInInputPack ==
    (cli.ran /\ cli.inputPackCount > 0 /\ ~charSigned
        /\ \A n \in 1..Len(cli.inputFiles) :
               (FileExt(cli.inputFiles[n]) = ".ico" /\ FileContent(cli.inputFiles[n]).kind = "ico")
                   => Sequential(FileContent(cli.inputFiles[n]))) =>
        \A k \in 1..cli.inputPackCount : cli.inputPack[k].image # NullImage

\* C17: an ICO or ICNS entry whose payload lacks the PNG signature is skipped: the
\* count returned by the loader leaves it out, the payloads after it are decoded, and
\* it is not a valid entry of a GUI pack nor an entry of the command-line input pack
\* (plain char unsigned and payloads stored in directory order, so that the signatures
\* present are recognised).
C17_UnsignedPayloadSkipped ==
    /\ SkippedNotCounted
    /\ DecodeContinues
    /\ SkippedNotInGuiPack
    /\ SkippedNotInInputPack

\* what the caller of a loader gets back: whether the pointer is NULL, and the count
LoadOutcome(name) ==
    LET loaded == LoadEntries(name) IN [null |-> loaded.null, count |-> loaded.count]

\* the files with a structural failure: no file, an ICO file without header, an ICNS
\* file cut after its signature, an ICNS file with another signature
BrokenContainers == {"missing.ico", "zero.ico", "missing.icns", "sig4.icns", "wrong.icns"}

\* the well-formed container of the same kind that holds no image
EmptyContainer(name) == IF FileExt(name) = ".ico" THEN "none.ico" ELSE "none.icns"

\* a load of a broken container leaves every pack as it was
BrokenLeavesPacks ==
    [][(op'.name = "LoadIconToPack" /\ op'.file \in BrokenContainers) => packs' = packs]_vars

\* C18: loading a container with a structural failure leaves the packs as they were,
\* and what the loader returns for it differs from what it returns for a well-formed
\* container of the same kind without images.
C18_StructuralFailureReported ==
    [][(op'.name = "LoadIconToPack" /\ op'.file \in BrokenContainers) =>
           /\ packs' = packs
           /\ LoadOutcome(op'.file) # LoadOutcome(EmptyContainer(op'.file))]_vars

\* chunk c of an ICNS file has a recognised OSType and a PNG payload
Recognised(file, c) ==
    file.chunks[c].type \in IcnsSupportedTypes /\ file.chunks[c].data.sig = "PNG"

\* the index of the k-th recognised PNG chunk of an ICNS file
KthRecognised(file, k) ==
    CHOOSE c \in 1..Len(file.chunks) :
        Recognised(file, c) /\ Cardinality({j \in 1..c : Recognised(file, j)}) = k

\* the chunk loop about to read the header of chunk c, nothing loaded so far
LoopAtChunk(file, c) ==
    [i |-> c - 1, pos |-> IcnsChunkPos(file, c), icnType |-> NulType, sizeBE |-> 0,
     processedSize |-> IcnsChunkPos(file, c), entries |-> <<>>, imageCounter |-> 0]

C20_AllChunksWithinSizeDecoded ==
    (JustLoaded(".icns") /\ FileContent(op.file).kind = "icns") =>
        LET file == FileContent(op.file)
            loaded == LoadIconPackFromICNS(file)
        IN
        (file.sig = "icns" /\ file.bytes >= 8) =>
            \A c \in 1..Len(file.chunks) :
                (Recognised(file, c) /\ IcnsChunkPos(file, c) + file.chunks[c].size <= file.size) =>
                    \E k \in 1..Len(loaded.entries) :
                        loaded.entries[k] = DecodedEntry(file.chunks[c].data)

\* the image dimensions SaveIconPackToICNS has an OSType for
IcnsEncodeSizes == {16, 32, 48, 64, 128, 256, 512, 1024}

\* file f holds one chunk for every valid entry of a supported dimension, in pack
\* order, each under the OSType of its own dimension, and no other chunk
IcnsChunksTagged(f, entries) ==
    LET supported == {i \in 1..Len(entries) :
                         entries[i].valid /\ entries[i].image.width \in IcnsEncodeSizes}
    IN
    /\ f.kind = "icns"
    /\ Len(f.chunks) = Cardinality(supported)
    /\ \A k \in 1..Len(f.chunks) :
           /\ f.chunks[k].data.width \in IcnsEncodeSizes
           /\ f.chunks[k].type = IcnsTypeOf(f.chunks[k].data.width, NulType)
    /\ \A i \in supported :
           \E k \in 1..Len(f.chunks) :
               PngDecode(f.chunks[k].data) = entries[i].image

\* C21: an ICNS file written from a pack holds no chunk for a valid entry whose
\* dimension is not one of 16, 32, 48, 64, 128, 256, 512, 1024, holds a chunk for
\* every other valid entry, and every chunk carries the OSType of its own dimension
\* (GUI exports, and command-line runs whose output entries all have a positive size
\* and hold an image of that size).
C21_IcnsSupportedSizesOnly ==
    /\ (saved.fmt = 2 /\ ValidCount(saved.entries) > 0) =>
           IcnsChunksTagged(disk.icns, saved.entries)
    /\ (cli.ran /\ cli.inputPackCount > 0 /\ cli.outName = "output.icns"
           /\ cli.outFile # NoFile
           /\ \A i \in 1..Len(cli.outPack) :
                  cli.outPack[i].size > 0 /\ cli.outPack[i].image.width = cli.outPack[i].size) =>
           IcnsChunksTagged(cli.outFile, cli.outPack)

\* C22: the decoder is chosen by the leading signature of the file, not by the
\* extension of its name: a file with ICNS content is decoded as the ICNS loader
\* decodes it, any other container file as the ICO loader decodes it.
C22_FormatBySignature ==
    (op.name = "LoadIconToPack" /\ FileContent(op.file).kind \in {"ico", "icns"}) =>
        LET file == FileContent(op.file)
            loaded == LoadEntries(op.file)
            expected == IF file.kind = "icns" /\ IcnsSigRead(file) = "icns"
                        THEN LoadIconPackFromICNS(file)
                        ELSE LoadIconPackFromICO(file)
        IN loaded.count = expected.count /\ loaded.entries = expected.entries

\* a value the --out-sizes option accepts
ValidOutSize(value) == (value > 0) /\ (value <= 256)

\* C23: when --out-sizes is given, the sizes of the output pack are the valid values
\* of the list, in list order, and nothing else.
C23_OutSizesExact ==
    (cli.ran /\ Len(cli.inputFiles) > 0 /\ cli.outSizesArg # <<>>) =>
        /\ cli.outSizes = SelectSeq(cli.outSizesArg, ValidOutSize)
        /\ [k \in 1..Len(cli.outPack) |-> cli.outPack[k].size] = cli.outSizes

\* the valid values of --out-sizes are the first sizes of the output pack
RequestedSizesFirst ==
    (cli.ran /\ Len(cli.inputFiles) > 0 /\ cli.outSizesArg # <<>>) =>
        LET requested == SelectSeq(cli.outSizesArg, ValidOutSize) IN
        /\ Len(cli.outSizes) >= Len(requested)
        /\ SubSeq(cli.outSizes, 1, Len(requested)) = requested

\* with a list of valid values only, the output sizes are the list followed by the
\* sizes of the platform scheme
RequestedThenScheme ==
    (cli.ran /\ Len(cli.inputFiles) > 0
        /\ \A k \in 1..Len(cli.outSizesArg) : ValidOutSize(cli.outSizesArg[k])) =>
        \E p \in Platforms : cli.outSizes = cli.outSizesArg \o PackSizes(p)

\* C24: a pack slot never holds more than one pack that was created and not closed,
\* no pack is closed twice, and once the program has exited every pack created has
\* been closed, in all five slots.
C24_PackLifecycle ==
    \A p \in Platforms :
        /\ life[p] \in {0, 1}
        /\ mode = "closed" => life[p] = 0

\* packs are closed before they are replaced and never twice, the exit left aside
ClosedBeforeReplaced == \A p \in Platforms : life[p] \in {0, 1}

\* the PNG payloads stored in a container file
PngPayloadsOf(file) ==
    IF file.kind = "ico" THEN {file.body[k].data : k \in 1..Len(file.body)}
    ELSE IF file.kind = "icns" THEN {file.chunks[k].data : k \in 1..Len(file.chunks)}
    ELSE {}

\* the entries a loader returned hold, for every payload with a text chunk longer
\* than 39 bytes, the first 39 bytes of the chunk
TruncatedOnRead(file, loaded) ==
    /\ ~loaded.null
    /\ \A d \in PngPayloadsOf(file) :
           (d.sig = "PNG" /\ d.rIPt.length >= MAX_IMAGE_TEXT_SIZE) =>
               \A k \in 1..loaded.count :
                   loaded.entries[k].image = PngDecode(d) =>
                       loaded.entries[k].text =
                           TextOf(SubSeq(d.rIPt.data, 1, MAX_IMAGE_TEXT_SIZE - 1))

\* C25: a text chunk longer than 39 bytes is cut to its first 39 bytes when a
\* container is read, the read succeeds, and the text of every entry of every pack
\* always holds at most 39 bytes followed by a zero byte inside its 40 bytes.
C25_TextBounded ==
    /\ \A p \in Platforms : \A i \in 1..packs[p].count :
           /\ Len(packs[p].entries[i].text) = MAX_IMAGE_TEXT_SIZE
           /\ StrLen(packs[p].entries[i].text) <= MAX_IMAGE_TEXT_SIZE - 1
    /\ (op.name = "LoadIconToPack" /\ op.file = "app.icns") =>
           TruncatedOnRead(FileContent(op.file), LoadEntries(op.file))
    /\ cli # NoCli =>
           \A i \in 1..cli.inputPackCount :
               StrLen(cli.inputPack[i].text) <= MAX_IMAGE_TEXT_SIZE - 1

\* a slot holds the first 39 bytes of the 45-byte line just read from a container
C25_Witness ==
    /\ op.name = "LoadIconToPack"
    /\ \E i \in 1..packs[platformActive].count :
           /\ packs[platformActive].entries[i].valid
           /\ CStr(packs[platformActive].entries[i].text) = SubSeq(Verse, 1, 39)

\* the slot i of the active pack that a load has just filled holds the text of the
\* decoded entry its image was taken from
SlotTextIsAnnotation(loaded, i) ==
    \E k \in 1..loaded.count :
        /\ ImageFormatRGBA(loaded.entries[k].image) = packs'[platformActive].entries[i].image
        /\ CStr(packs'[platformActive].entries[i].text) = CStr(loaded.entries[k].text)

\* C26: whenever LoadIconToPack fills a slot that was invalid, the text of the slot
\* afterwards is exactly the text that came with the decoded image, empty when the
\* image has none, whatever text the slot held before.
C26_LoadedTextIsAnnotation ==
    [][(mode = "gui" /\ op'.name = "LoadIconToPack") =>
           LET loaded == LoadEntries(op'.file) IN
           \A i \in 1..packs[platformActive].count :
               (~packs[platformActive].entries[i].valid
                    /\ packs'[platformActive].entries[i].valid) =>
                   SlotTextIsAnnotation(loaded, i)]_vars

\* the same for the slots whose text was empty before the load
C26_FreshSlots ==
    [][(mode = "gui" /\ op'.name = "LoadIconToPack") =>
           LET loaded == LoadEntries(op'.file) IN
           \A i \in 1..packs[platformActive].count :
               (~packs[platformActive].entries[i].valid
                    /\ CStr(packs[platformActive].entries[i].text) = <<>>
                    /\ packs'[platformActive].entries[i].valid) =>
                   SlotTextIsAnnotation(loaded, i)]_vars

\* the variables of the chunk loop of LoadIconPackFromICNS after n iterations
RECURSIVE IcnsLoopAfter(_, _)
IcnsLoopAfter(file, n) ==
    IF n = 0
    THEN [i |-> 0, pos |-> 8, icnType |-> NulType, sizeBE |-> IcnsSizeRead(file),
          processedSize |-> 8, entries |-> <<>>, imageCounter |-> 0]
    ELSE IcnsStep(file, IcnsLoopAfter(file, n - 1))

\* the loop runs an iteration from the state st and reads the header of a chunk
IcnsReadsChunk(file, st) ==
    /\ st.i < MAX_ICNS_IMAGE_SUPPORTED
    /\ ULess32(st.processedSize, IcnsSizeRead(file))
    /\ IcnsChunkAt(file, st.pos) # 0

\* the payload length of the chunk read from st is at most the bytes that remain up
\* to the declared file size, as unsigned numbers, and processedSize does not wrap
PayloadWithinFile(file, st) ==
    LET c == IcnsChunkAt(file, st.pos)
        icnSize == file.chunks[c].size - 8
        remaining == IcnsSizeRead(file) - (st.processedSize + 8)
        next == IcnsStep(file, st)
    IN
    /\ ~ULess32(IcnsSizeRead(file), st.processedSize + 8)
    /\ ~ULess32(remaining, icnSize)
    /\ ~ULess32(next.processedSize, st.processedSize)
    /\ file.chunks[c].size < 8 => next.imageCounter = st.imageCounter

\* C27: for every chunk the ICNS loader reads, the payload length, the declared
\* size minus 8 as a 32-bit unsigned number, is at most the number of bytes left up
\* to the declared file size, processedSize never wraps, and a chunk declaring a
\* size below 8 is not loaded.
C27_PayloadLengthInRange ==
    (JustLoaded(".icns") /\ FileContent(op.file).kind = "icns") =>
        LET file == FileContent(op.file) IN
        (file.sig = "icns" /\ file.bytes >= 8) =>
            \A n \in 0..(MAX_ICNS_IMAGE_SUPPORTED - 1) :
                (n <= Len(file.chunks) /\ IcnsReadsChunk(file, IcnsLoopAfter(file, n))) =>
                    PayloadWithinFile(file, IcnsLoopAfter(file, n))

\* the same for the files whose chunks all declare a size of 8 or more
C27_WellFormedChunks ==
    (JustLoaded(".icns") /\ FileContent(op.file).kind = "icns") =>
        LET file == FileContent(op.file) IN
        (file.sig = "icns" /\ file.bytes >= 8
             /\ \A c \in 1..Len(file.chunks) : file.chunks[c].size >= 8) =>
            \A n \in 0..(MAX_ICNS_IMAGE_SUPPORTED - 1) :
                (n <= Len(file.chunks) /\ IcnsReadsChunk(file, IcnsLoopAfter(file, n))) =>
                    PayloadWithinFile(file, IcnsLoopAfter(file, n))

\* C28: in the GUI loop entries[sizeListActive - 1] of the active pack is never read
\* or written with sizeListActive above the count of the active pack, whatever sizes
\* and platforms were selected.
C28_SelectionInRange ==
    /\ ~oob
    /\ mode = "gui" => InRange(packs, platformActive, sizeListActive)

\* the selection stays in range as long as the platform is not changed
C28_InRangeOnStartPlatform ==
    (mode = "gui" /\ platformActive = ICON_PLATFORM_WINDOWS) =>
        (InRange(packs, platformActive, sizeListActive) \/ oob)

\* C29: the command line never fills its fixed arrays past their end: inputPackCount
\* stays at most MAX_ICONS_PACK and outSizesCount, the platform scheme appended, at
\* most MAX_OUTPUT_SIZES.
C29_CliArraysBounded ==
    cli.ran =>
        /\ cli.inputPackCount <= MAX_ICONS_PACK
        /\ cli.outSizesCount <= MAX_OUTPUT_SIZES

\* the bound holds for the runs given at most 54 values with --out-sizes
C29_FewSizesBounded ==
    (cli.ran /\ Len(cli.outSizesArg) <= MAX_OUTPUT_SIZES - 10) =>
        /\ cli.inputPackCount <= MAX_ICONS_PACK
        /\ cli.outSizesCount <= MAX_OUTPUT_SIZES

\* the image of an output entry was copied from an entry of the input pack or
\* resampled from one to the entry's size
FromAcceptedInput(entry, inputPack) ==
    \E j \in 1..Len(inputPack) :
        /\ inputPack[j].image.width = inputPack[j].image.height
        /\ inputPack[j].image.data # NullData
        /\ \/ entry.image = inputPack[j].image
           \/ \E algo \in {1, 2} :
                  entry.image = CliGeneratedImage(inputPack[j].image, entry.size, algo)

\* C30: after a command-line run every output entry marked valid holds an image
\* copied or resampled from an accepted input image, and a run that accepted no
\* input image marks no output entry valid and writes no container file.
C30_OutputFromAcceptedInput ==
    (mode = "cli" /\ cli.ran /\ cli.inputFiles # <<>>) =>
        /\ \A i \in 1..Len(cli.outPack) :
               cli.outPack[i].valid => FromAcceptedInput(cli.outPack[i], cli.inputPack)
        /\ cli.inputPackCount = 0 =>
               /\ \A i \in 1..Len(cli.outPack) : ~cli.outPack[i].valid
               /\ cli.outFile = NoFile

\* the first half for the runs whose input pack holds decoded images only
C30_WithAcceptedInput ==
    (mode = "cli" /\ cli.ran /\ cli.inputFiles # <<>> /\ cli.inputPackCount > 0
         /\ \A j \in 1..cli.inputPackCount : cli.inputPack[j].image.data # NullData) =>
        \A i \in 1..Len(cli.outPack) :
            cli.outPack[i].valid => FromAcceptedInput(cli.outPack[i], cli.inputPack)

====
